---- MODULE Spec2Model ----
(***************************************************************************)
(* Policy-based Vector of src/11.cpp: a raw buffer obtained from an        *)
(* allocation policy, a per-instance mutex from a thread policy, and the   *)
(* container operations, each split into the steps at which another        *)
(* thread can observe its effect.  The instance counter Countable<Derived>  *)
(* of src/template_CRTP.cpp is modelled beside it.                         *)
(***************************************************************************)
EXTENDS Integers, Sequences, FiniteSets, Bags, TLC

\* ------------------------------------------------------------------ bounds
NThreads == 2      \* threads of control
MaxPush == 2       \* push_back calls of one worker thread
MaxCap == 2        \* largest capacity an operation is asked to reach
MaxSeq == 4        \* longest push_back sequence of the single-thread run
MaxObjects == 3    \* objects of one class alive at a time, and copies made of it

Threads == 1..NThreads
Vecs == {"A", "B"}
\* Two element values tell a moved, lost or duplicated element from its
\* neighbour; no step of the code depends on the value of an element.
Values == {0, 1}
MaxBuf == Cardinality(Vecs) + NThreads + 1
Bufs == 1..MaxBuf
\* The classes deriving from Countable of which main creates objects.
Classes == {"Document", "User"}

\* ------------------------------------------------------- program constants
Null == 0          \* nullptr
NoThread == 0      \* an unlocked std::mutex has no owner
Raw == -1          \* a slot in which the Vector holds no constructed element
DefaultElem == 0   \* T() for the arithmetic element types of the tests

VARIABLES
    allocPolicy,   \* "malloc" (MallocAllocator) or "new" (NewAllocator)
    threadPolicy,  \* "single" (SingleThreaded) or "multi" (MultiThreaded)
    oom,           \* TRUE when the system may refuse an allocation
    throwing,      \* TRUE when T() of the element type may throw
    life,          \* life[v]: "none", "building", "live" or "dying"
    data,          \* data_     of each Vector: a buffer or Null
    size,          \* size_     of each Vector
    capacity,      \* capacity_ of each Vector
    owner,         \* mutex_    of each Vector: the thread holding it
    heap,          \* heap[b] = [live |-> allocated, slots |-> its storage]
    pc,            \* the step each thread is at
    loc,           \* the arguments and locals of the running operation
    res,           \* how the thread's last operation ended: "ok", "threw", "refused"
    calls,         \* operations the thread's driver has issued
    pre,           \* (history) the Vector state when the operation was called
    pushed,        \* (history) the values passed to push_back, in call order
    mark,          \* (history) the state of each Vector the caller noted last
    instances,     \* elements constructed and not destructed: what an element
                   \* type that counts its live instances reports
    fault,         \* the first memory error of the run, "none" before it
    count,         \* count[d]: Countable<d>::count
    alive          \* alive[d]: objects of class d constructed and not destructed

vars == <<allocPolicy, threadPolicy, oom, throwing, life, data, size, capacity, owner,
          heap, pc, loc, res, calls, pre, pushed, mark, instances, fault, count, alive>>
counters == <<count, alive>>

policies == <<allocPolicy, threadPolicy, oom, throwing>>
fields == <<data, size, capacity>>

\* ----------------------------------------------------------------- storage
\* A slot of a buffer holds the element the Vector constructed there, or Raw
\* when the Vector constructed none or destructed it. The elements that
\* new T[n] itself constructs in the slots, and that delete[] destructs, are
\* counted in instances (AllocConstructs, DeallocDestructs); no statement of
\* the Vector reads them.
\* An access outside allocated storage is undefined: the run may end there
\* (any behaviour may stop), or go on with the read yielding any value and the
\* write reaching no storage of the model; fault records that it happened.
DeadBuf == [live |-> FALSE, slots |-> << >>]

RawSlots(n) == [k \in 1..n |-> Raw]

\* The buffers some pointer of the program still designates.
Referenced ==
    {data[v] : v \in Vecs} \cup {loc[t].newdata : t \in Threads}
        \cup {loc[t].ref[1] : t \in Threads}

\* The address the allocator hands out: storage that is neither allocated
\* nor still designated by a stale pointer.
FreshBuf == CHOOSE b \in Bufs : /\ ~heap[b].live
                                /\ b \notin Referenced
                                /\ \A c \in Bufs : (~heap[c].live /\ c \notin Referenced) => b <= c

HasFresh == \E b \in Bufs : ~heap[b].live /\ b \notin Referenced

\* The outcomes of a request for storage: "ok", or a refusal when the
\* system can refuse one.
AllocOutcomes == IF oom THEN {"ok", "fail"} ELSE {"ok"}

\* p[i] designates a slot of allocated storage.
Valid(p, i) == p # Null /\ heap[p].live /\ i >= 0 /\ i < Len(heap[p].slots)

\* p[i] holds a constructed element.
LiveSlot(p, i) == Valid(p, i) /\ heap[p].slots[i + 1] # Raw

\* What a read of p[i] yields: the slot, or any value when p[i] is not a
\* slot of allocated storage.
ReadOutcomes(p, i) == IF Valid(p, i) THEN {heap[p].slots[i + 1]} ELSE Values \cup {Raw}

\* The heap after p[i] := x; a write outside allocated storage reaches no
\* storage of the model.
Store(h, p, i, x) ==
    IF p # Null /\ h[p].live /\ i >= 0 /\ i < Len(h[p].slots)
    THEN [h EXCEPT ![p].slots[i + 1] = x]
    ELSE h

\* The heap after the release of p.
Release(h, p) == IF p # Null THEN [h EXCEPT ![p] = DeadBuf] ELSE h

\* The elements a request for n slots constructs: new T[n] default-constructs
\* n elements of a class type, std::malloc constructs none.
AllocConstructs(n) == IF allocPolicy = "new" THEN n ELSE 0

\* The elements the release of p destructs: delete[] destructs every element
\* of the array new T[n] made, std::free destructs none. The release of
\* storage that is not allocated is undefined: delete[] may find any count of
\* elements up to c where the array was.
DeallocDestructs(p, c) ==
    IF allocPolicy = "new" /\ p # Null
    THEN IF heap[p].live THEN {Len(heap[p].slots)} ELSE 0..c
    ELSE {0}

\* The first memory error is kept.
Fault(bad, kind) == IF bad /\ fault = "none" THEN kind ELSE fault

\* The live elements of v, in index order.
Elems(v) == [k \in 1..size[v] |-> IF Valid(data[v], k - 1) THEN heap[data[v]].slots[k] ELSE Raw]

\* ------------------------------------------------------------ thread policy
\* A lock() that takes the mutex without waiting for its holder.
MutexLockNoWait(t, v) ==
    IF threadPolicy = "multi"
    THEN owner' = [owner EXCEPT ![v] = t]
    ELSE UNCHANGED owner

\* MultiThreaded::Mutex::lock blocks until the mutex is free (a thread that
\* locks a std::mutex it holds blocks for ever); SingleThreaded's does nothing.
MutexLock(t, v) ==
    IF threadPolicy = "multi"
    THEN owner[v] = NoThread /\ owner' = [owner EXCEPT ![v] = t]
    ELSE UNCHANGED owner

MutexUnlock(t, v) ==
    IF threadPolicy = "multi"
    THEN owner' = [owner EXCEPT ![v] = NoThread]
    ELSE UNCHANGED owner

\* ------------------------------------------------------------------ threads
NoLoc == [self |-> "A", other |-> "A", value |-> 0, index |-> 0, newcap |-> 0,
          newdata |-> Null, i |-> 0, ret |-> "idle", ref |-> <<Null, 0>>, op |-> "none",
          refused |-> FALSE]

Snapshot(v) == [data |-> data[v], size |-> size[v], capacity |-> capacity[v],
                elems |-> Elems(v)]

NoPre == [data |-> Null, size |-> 0, capacity |-> 0, elems |-> << >>]

\* The thread goes on to the step named label.
Goto(t, label) == pc' = [pc EXCEPT ![t] = label] /\ UNCHANGED <<pre, mark>>

\* The thread stays in the loop it is in.
Stay(t) == UNCHANGED <<pc, pre, mark>>

\* What the thread keeps of an operation that did not end well: which
\* operation it was and on which instances.
Kept(t) == [NoLoc EXCEPT !.op = loc[t].op, !.self = loc[t].self, !.other = loc[t].other]

\* The operation returns to its caller; "refused" when an allocation of it was
\* refused and it went on (MallocAllocator's nullptr).
Return(t) ==
    /\ pc' = [pc EXCEPT ![t] = "idle"]
    /\ res' = [res EXCEPT ![t] = IF loc[t].refused THEN "refused" ELSE "ok"]
    /\ loc' = [loc EXCEPT ![t] = IF loc[t].refused THEN Kept(t) ELSE NoLoc]
    /\ pre' = [pre EXCEPT ![t] = IF loc[t].refused THEN @ ELSE NoPre]
    /\ UNCHANGED mark

\* An exception leaves the operation: no later statement of it runs.
Throw(t) ==
    /\ pc' = [pc EXCEPT ![t] = "idle"]
    /\ res' = [res EXCEPT ![t] = "threw"]
    /\ loc' = [loc EXCEPT ![t] = Kept(t)]
    /\ UNCHANGED <<pre, mark>>

\* Thread t starts an operation on v at the step named label.
Call(t, v, label) ==
    /\ pc[t] = "idle"
    /\ pc' = [pc EXCEPT ![t] = label]
    /\ res' = [res EXCEPT ![t] = "ok"]

\* --------------------------------------------------------------- push_back
\* A growth policy that adds one slot.
NewCapacityPlusOne(c) == c + 1

\* size_t new_capacity = capacity_ == 0 ? 1 : capacity_ * 2;
NewCapacity(c) == IF c = 0 THEN 1 ELSE c * 2

CallPushBack(t, v, x) ==
    /\ life[v] = "live"
    /\ Call(t, v, "pb_lock")
    /\ loc' = [loc EXCEPT ![t] = [NoLoc EXCEPT !.op = "push_back", !.self = v, !.value = x]]
    /\ UNCHANGED <<policies, counters, instances, life, fields, owner, heap, fault>>

PbLock(t) ==
    /\ pc[t] = "pb_lock"
    /\ MutexLock(t, loc[t].self)
    /\ Goto(t, "pb_check")
    /\ UNCHANGED <<policies, counters, instances, life, fields, heap, loc, res, calls, pushed, fault>>

PbCheck(t) ==
    /\ pc[t] = "pb_check"
    /\ LET v == loc[t].self IN
       IF size[v] = capacity[v]
       THEN /\ Goto(t, "rs_check")
            /\ loc' = [loc EXCEPT ![t].newcap = NewCapacity(capacity[v]),
                                  ![t].ret = "pb_construct"]
       ELSE /\ Goto(t, "pb_construct")
            /\ UNCHANGED loc
    /\ UNCHANGED <<policies, counters, instances, life, fields, owner, heap, res, calls, pushed, fault>>

\* push_back(const T& value): the argument is a reference. It refers either to
\* an object outside every Vector (ref = <<Null, 0>>, whose value is
\* loc[t].value throughout the call) or to the element of a buffer that
\* operator[] returned; the latter is read when T(value) is evaluated.
ArgDangling(t) == loc[t].ref[1] # Null /\ ~LiveSlot(loc[t].ref[1], loc[t].ref[2])

ArgOutcomes(t) ==
    IF loc[t].ref[1] = Null
    THEN {loc[t].value}
    ELSE ReadOutcomes(loc[t].ref[1], loc[t].ref[2])

\* new (&data_[size_]) T(value);
PbConstruct(t) ==
    /\ pc[t] = "pb_construct"
    /\ LET v == loc[t].self IN
       /\ \E x \in ArgOutcomes(t) : heap' = Store(heap, data[v], size[v], x)
       /\ fault' = IF ArgDangling(t)
                   THEN Fault(TRUE, "dangling_reference")
                   ELSE Fault(~Valid(data[v], size[v]), "bad_write")
    /\ instances' = instances + 1
    /\ Goto(t, "pb_inc")
    /\ UNCHANGED <<policies, counters, life, fields, owner, loc, res, calls, pushed>>

PbInc(t) ==
    /\ pc[t] = "pb_inc"
    /\ size' = [size EXCEPT ![loc[t].self] = @ + 1]
    /\ Goto(t, "pb_unlock")
    /\ UNCHANGED <<policies, counters, instances, life, data, capacity, owner, heap, loc, res, calls,
                   pushed, fault>>

PbUnlock(t) ==
    /\ pc[t] = "pb_unlock"
    /\ MutexUnlock(t, loc[t].self)
    /\ Return(t)
    /\ UNCHANGED <<policies, counters, instances, life, fields, heap, calls, pushed, fault>>

\* ----------------------------------------------------------------- reserve
\* A capacity test that lets reserve(capacity()) through to the reallocation.
RsCheckStrict(t) ==
    /\ pc[t] = "rs_check"
    /\ IF loc[t].newcap < capacity[loc[t].self]
       THEN IF loc[t].ret = "idle"
            THEN Return(t)
            ELSE Goto(t, loc[t].ret) /\ UNCHANGED <<loc, res>>
       ELSE Goto(t, "rs_alloc") /\ UNCHANGED <<loc, res>>
    /\ UNCHANGED <<policies, counters, instances, life, fields, owner, heap, calls, pushed, fault>>

\* A reserve that acquires the guard of its Vector before the capacity test.
RsCheckLocks(t) ==
    /\ pc[t] = "rs_check"
    /\ MutexLock(t, loc[t].self)
    /\ IF loc[t].newcap <= capacity[loc[t].self]
       THEN IF loc[t].ret = "idle"
            THEN Return(t)
            ELSE Goto(t, loc[t].ret) /\ UNCHANGED <<loc, res>>
       ELSE Goto(t, "rs_alloc") /\ UNCHANGED <<loc, res>>
    /\ UNCHANGED <<policies, counters, instances, life, fields, heap, calls, pushed, fault>>

\* if (new_capacity <= capacity_) return;
RsCheck(t) ==
    /\ pc[t] = "rs_check"
    /\ IF loc[t].newcap <= capacity[loc[t].self]
       THEN IF loc[t].ret = "idle"
            THEN Return(t)
            ELSE Goto(t, loc[t].ret) /\ UNCHANGED <<loc, res>>
       ELSE Goto(t, "rs_alloc") /\ UNCHANGED <<loc, res>>
    /\ UNCHANGED <<policies, counters, instances, life, fields, owner, heap, calls, pushed, fault>>

\* allocator_type::allocate(new_capacity): NewAllocator throws when refused,
\* MallocAllocator returns nullptr.
RsAlloc(t) ==
    /\ pc[t] = "rs_alloc"
    /\ \E outcome \in AllocOutcomes :
          IF outcome = "ok"
          THEN /\ HasFresh
               /\ heap' = [heap EXCEPT ![FreshBuf] =
                              [live |-> TRUE, slots |-> RawSlots(loc[t].newcap)]]
               /\ loc' = [loc EXCEPT ![t].newdata = FreshBuf, ![t].i = 0]
               /\ instances' = instances + AllocConstructs(loc[t].newcap)
               /\ Goto(t, "rs_move")
               /\ UNCHANGED res
          ELSE IF allocPolicy = "new"
          THEN Throw(t) /\ UNCHANGED <<heap, instances>>
          ELSE /\ loc' = [loc EXCEPT ![t].newdata = Null, ![t].i = 0, ![t].refused = TRUE]
               /\ Goto(t, "rs_move")
               /\ UNCHANGED <<heap, res, instances>>
    /\ UNCHANGED <<policies, counters, life, fields, owner, calls, pushed, fault>>

\* A relocation loop that reads every element from data_[0].
RsMoveFromFirst(t) ==
    /\ pc[t] = "rs_move"
    /\ LET v == loc[t].self
           i == loc[t].i IN
       IF i < size[v]
       THEN /\ \E x \in ReadOutcomes(data[v], 0) :
                 heap' = Store(Store(heap, loc[t].newdata, i, x), data[v], i, Raw)
            /\ fault' = Fault(~Valid(data[v], i) \/ ~Valid(loc[t].newdata, i), "bad_write")
            /\ loc' = [loc EXCEPT ![t].i = i + 1]
            /\ Stay(t)
       ELSE /\ Goto(t, "rs_free")
            /\ UNCHANGED <<heap, fault, loc>>
    /\ UNCHANGED <<policies, counters, instances, life, fields, owner, res, calls, pushed>>

\* One turn of the relocation loop: construct new_data[i] from data_[i], then
\* destruct data_[i] (one construction and one destruction: instances is as
\* before); the loop ends when i reaches size_.
RsMove(t) ==
    /\ pc[t] = "rs_move"
    /\ LET v == loc[t].self
           i == loc[t].i IN
       IF i < size[v]
       THEN /\ \E x \in ReadOutcomes(data[v], i) :
                 heap' = Store(Store(heap, loc[t].newdata, i, x), data[v], i, Raw)
            /\ fault' = Fault(~Valid(data[v], i) \/ ~Valid(loc[t].newdata, i), "bad_write")
            /\ loc' = [loc EXCEPT ![t].i = i + 1]
            /\ Stay(t)
       ELSE /\ Goto(t, "rs_free")
            /\ UNCHANGED <<heap, fault, loc>>
    /\ UNCHANGED <<policies, counters, instances, life, fields, owner, res, calls, pushed>>

RsFree(t) ==
    /\ pc[t] = "rs_free"
    /\ LET v == loc[t].self IN
       /\ heap' = Release(heap, data[v])
       /\ fault' = Fault(data[v] # Null /\ ~heap[data[v]].live, "double_free")
       /\ \E d \in DeallocDestructs(data[v], capacity[v]) : instances' = instances - d
    /\ Goto(t, "rs_assign")
    /\ UNCHANGED <<policies, counters, life, fields, owner, loc, res, calls, pushed>>

RsAssign(t) ==
    /\ pc[t] = "rs_assign"
    /\ data' = [data EXCEPT ![loc[t].self] = loc[t].newdata]
    /\ capacity' = [capacity EXCEPT ![loc[t].self] = loc[t].newcap]
    /\ IF loc[t].ret = "idle"
       THEN Return(t)
       ELSE /\ Goto(t, loc[t].ret)
            /\ loc' = [loc EXCEPT ![t].newdata = Null, ![t].i = 0]
            /\ UNCHANGED res
    /\ UNCHANGED <<policies, counters, instances, life, size, owner, heap, calls, pushed, fault>>

\* ---------------------------------------------------------------- pop_back
CallPopBack(t, v) ==
    /\ life[v] = "live"
    /\ Call(t, v, "po_lock")
    /\ loc' = [loc EXCEPT ![t] = [NoLoc EXCEPT !.op = "pop_back", !.self = v]]
    /\ UNCHANGED <<policies, counters, instances, life, fields, owner, heap, fault>>

PoLock(t) ==
    /\ pc[t] = "po_lock"
    /\ MutexLock(t, loc[t].self)
    /\ Goto(t, "po_check")
    /\ UNCHANGED <<policies, counters, instances, life, fields, heap, loc, res, calls, pushed, fault>>

\* A size test that never removes the last element.
PoCheckKeepsLast(t) ==
    /\ pc[t] = "po_check"
    /\ LET v == loc[t].self IN
       IF size[v] > 1
       THEN size' = [size EXCEPT ![v] = @ - 1] /\ Goto(t, "po_destroy")
       ELSE UNCHANGED size /\ Goto(t, "po_unlock")
    /\ UNCHANGED <<policies, counters, instances, life, data, capacity, owner, heap, loc, res, calls,
                   pushed, fault>>

\* if (size_ > 0) --size_;
PoCheck(t) ==
    /\ pc[t] = "po_check"
    /\ LET v == loc[t].self IN
       IF size[v] > 0
       THEN size' = [size EXCEPT ![v] = @ - 1] /\ Goto(t, "po_destroy")
       ELSE UNCHANGED size /\ Goto(t, "po_unlock")
    /\ UNCHANGED <<policies, counters, instances, life, data, capacity, owner, heap, loc, res, calls,
                   pushed, fault>>

\* A pop_back that destructs the first element instead of the last.
PoDestroyFirst(t) ==
    /\ pc[t] = "po_destroy"
    /\ LET v == loc[t].self IN
       /\ heap' = Store(heap, data[v], 0, Raw)
       /\ fault' = Fault(~LiveSlot(data[v], 0), "bad_destroy")
    /\ instances' = instances - 1
    /\ Goto(t, "po_unlock")
    /\ UNCHANGED <<policies, counters, life, fields, owner, loc, res, calls, pushed>>

\* data_[size_].~T();
PoDestroy(t) ==
    /\ pc[t] = "po_destroy"
    /\ LET v == loc[t].self IN
       /\ heap' = Store(heap, data[v], size[v], Raw)
       /\ fault' = Fault(~LiveSlot(data[v], size[v]), "bad_destroy")
    /\ instances' = instances - 1
    /\ Goto(t, "po_unlock")
    /\ UNCHANGED <<policies, counters, life, fields, owner, loc, res, calls, pushed>>

PoUnlock(t) ==
    /\ pc[t] = "po_unlock"
    /\ MutexUnlock(t, loc[t].self)
    /\ Return(t)
    /\ UNCHANGED <<policies, counters, instances, life, fields, heap, calls, pushed, fault>>

\* ------------------------------------------------- reserve, called directly
CallReserve(t, v, n) ==
    /\ life[v] = "live"
    /\ Call(t, v, "rs_check")
    /\ loc' = [loc EXCEPT ![t] = [NoLoc EXCEPT !.op = "reserve", !.self = v, !.newcap = n]]
    /\ UNCHANGED <<policies, counters, instances, life, fields, owner, heap, fault>>

\* -------------------------------------------------------------- operator[]
\* kind is what the caller does with the reference it gets: "read" or "write".
CallIndex(t, v, index, kind, x) ==
    /\ life[v] = "live"
    /\ index < size[v]
    /\ Call(t, v, "ix_lock")
    /\ loc' = [loc EXCEPT ![t] = [NoLoc EXCEPT !.op = kind, !.self = v, !.index = index,
                                               !.value = x]]
    /\ UNCHANGED <<policies, counters, instances, life, fields, owner, heap, fault>>

IxLock(t) ==
    /\ pc[t] = "ix_lock"
    /\ MutexLock(t, loc[t].self)
    /\ Goto(t, "ix_ref")
    /\ UNCHANGED <<policies, counters, instances, life, fields, heap, loc, res, calls, pushed, fault>>

\* T& ref = data_[index];
IxRef(t) ==
    /\ pc[t] = "ix_ref"
    /\ loc' = [loc EXCEPT ![t].ref = <<data[loc[t].self], loc[t].index>>]
    /\ Goto(t, "ix_unlock")
    /\ UNCHANGED <<policies, counters, instances, life, fields, owner, heap, res, calls, pushed, fault>>

\* mutex_.unlock(); return ref;
IxUnlock(t) ==
    /\ pc[t] = "ix_unlock"
    /\ MutexUnlock(t, loc[t].self)
    /\ Goto(t, "ix_use")
    /\ UNCHANGED <<policies, counters, instances, life, fields, heap, loc, res, calls, pushed, fault>>

\* v.push_back(v[index]): the caller passes the reference that operator[]
\* returned to push_back of the same Vector.
PbCallRef(t) ==
    /\ pc[t] = "ix_use"
    /\ loc[t].op = "arg"
    /\ pc' = [pc EXCEPT ![t] = "pb_lock"]
    /\ \E x \in ReadOutcomes(loc[t].ref[1], loc[t].ref[2]) :
          loc' = [loc EXCEPT ![t] = [NoLoc EXCEPT !.op = "push_back", !.self = loc[t].self,
                                                  !.ref = loc[t].ref, !.value = x]]
    /\ UNCHANGED <<policies, counters, instances, life, fields, owner, heap, res, fault>>

\* The caller reads or writes the element through the reference returned.
IxUse(t) ==
    /\ pc[t] = "ix_use"
    /\ LET p == loc[t].ref[1]
           i == loc[t].ref[2] IN
       /\ heap' = IF loc[t].op = "write" THEN Store(heap, p, i, loc[t].value) ELSE heap
       /\ fault' = Fault(~LiveSlot(p, i), "dangling_reference")
    /\ Return(t)
    /\ UNCHANGED <<policies, counters, instances, life, fields, owner, calls, pushed>>

\* ------------------------------------------------------------------- print
CallPrint(t, v) ==
    /\ life[v] = "live"
    /\ Call(t, v, "pr_lock")
    /\ loc' = [loc EXCEPT ![t] = [NoLoc EXCEPT !.op = "print", !.self = v]]
    /\ UNCHANGED <<policies, counters, instances, life, fields, owner, heap, fault>>

\* A print that starts to read without the guard.
PrLockSkipped(t) ==
    /\ pc[t] = "pr_lock"
    /\ Goto(t, "pr_read")
    /\ UNCHANGED <<policies, counters, instances, life, fields, owner, heap, loc, res, calls, pushed,
                   fault>>

\* mutex_.lock();
PrLock(t) ==
    /\ pc[t] = "pr_lock"
    /\ MutexLock(t, loc[t].self)
    /\ Goto(t, "pr_read")
    /\ UNCHANGED <<policies, counters, instances, life, fields, heap, loc, res, calls, pushed, fault>>

\* One turn of: for (i < size_) std::cout << data_[i];
PrRead(t) ==
    /\ pc[t] = "pr_read"
    /\ LET v == loc[t].self
           i == loc[t].i IN
       IF i < size[v]
       THEN /\ fault' = Fault(~LiveSlot(data[v], i), "bad_read")
            /\ loc' = [loc EXCEPT ![t].i = i + 1]
            /\ Stay(t)
       ELSE /\ Goto(t, "pr_unlock")
            /\ UNCHANGED <<fault, loc>>
    /\ UNCHANGED <<policies, counters, instances, life, fields, owner, heap, res, calls, pushed>>

\* mutex_.unlock();
PrUnlock(t) ==
    /\ pc[t] = "pr_unlock"
    /\ MutexUnlock(t, loc[t].self)
    /\ Return(t)
    /\ UNCHANGED <<policies, counters, instances, life, fields, heap, calls, pushed, fault>>

\* ------------------------------------------------------------ construction
\* Vector(): the default member initializers.
DefaultCtor(t, v) ==
    /\ pc[t] = "idle"
    /\ life[v] = "none"
    /\ life' = [life EXCEPT ![v] = "live"]
    /\ data' = [data EXCEPT ![v] = Null]
    /\ size' = [size EXCEPT ![v] = 0]
    /\ capacity' = [capacity EXCEPT ![v] = 0]
    /\ res' = [res EXCEPT ![t] = "ok"]
    /\ loc' = [loc EXCEPT ![t] = NoLoc]
    /\ UNCHANGED <<policies, counters, instances, owner, heap, pc, fault>>

\* A constructor that exits by an exception: the object never existed and its
\* destructor does not run; what it allocated stays allocated.
Abandon(t) ==
    /\ life' = [life EXCEPT ![loc[t].self] = "none"]
    /\ data' = [data EXCEPT ![loc[t].self] = Null]
    /\ size' = [size EXCEPT ![loc[t].self] = 0]
    /\ capacity' = [capacity EXCEPT ![loc[t].self] = 0]
    /\ Throw(t)

CtorOutcomes == IF throwing THEN {"ok", "throw"} ELSE {"ok"}

\* explicit Vector(size_t initial_size) : size_(initial_size), capacity_(initial_size)
CallSizedCtor(t, v, n) ==
    /\ life[v] = "none"
    /\ Call(t, v, "sc_alloc")
    /\ life' = [life EXCEPT ![v] = "building"]
    /\ data' = [data EXCEPT ![v] = Null]
    /\ size' = [size EXCEPT ![v] = n]
    /\ capacity' = [capacity EXCEPT ![v] = n]
    /\ loc' = [loc EXCEPT ![t] = [NoLoc EXCEPT !.op = "sized_ctor", !.self = v, !.newcap = n]]
    /\ UNCHANGED <<policies, counters, instances, owner, heap, fault>>

\* if (initial_size > 0) data_ = allocator_type::allocate(initial_size);
ScAlloc(t) ==
    /\ pc[t] = "sc_alloc"
    /\ LET v == loc[t].self IN
       IF loc[t].newcap > 0
       THEN \E outcome \in AllocOutcomes :
               IF outcome = "ok"
               THEN /\ HasFresh
                    /\ heap' = [heap EXCEPT ![FreshBuf] =
                                   [live |-> TRUE, slots |-> RawSlots(loc[t].newcap)]]
                    /\ data' = [data EXCEPT ![v] = FreshBuf]
                    /\ instances' = instances + AllocConstructs(loc[t].newcap)
                    /\ Goto(t, "sc_construct")
                    /\ UNCHANGED <<life, size, capacity, loc, res>>
               ELSE IF allocPolicy = "new"
               THEN Abandon(t) /\ UNCHANGED <<heap, instances>>
               ELSE /\ Goto(t, "sc_construct")
                    /\ loc' = [loc EXCEPT ![t].refused = TRUE]
                    /\ UNCHANGED <<life, fields, heap, res, instances>>
       ELSE /\ life' = [life EXCEPT ![v] = "live"]
            /\ Return(t)
            /\ UNCHANGED <<fields, heap, instances>>
    /\ UNCHANGED <<policies, counters, owner, calls, pushed, fault>>

\* One turn of: for (i < size_) new (&data_[i]) T();
ScConstruct(t) ==
    /\ pc[t] = "sc_construct"
    /\ LET v == loc[t].self
           i == loc[t].i IN
       IF i < size[v]
       THEN \E outcome \in CtorOutcomes :
               IF outcome = "ok"
               THEN /\ heap' = Store(heap, data[v], i, DefaultElem)
                    /\ fault' = Fault(~Valid(data[v], i), "bad_write")
                    /\ loc' = [loc EXCEPT ![t].i = i + 1]
                    /\ instances' = instances + 1
                    /\ Stay(t) /\ UNCHANGED <<life, fields, res>>
               ELSE Abandon(t) /\ UNCHANGED <<heap, fault, instances>>
       ELSE /\ life' = [life EXCEPT ![v] = "live"]
            /\ Return(t)
            /\ UNCHANGED <<fields, heap, fault, instances>>
    /\ UNCHANGED <<policies, counters, owner, calls, pushed>>

\* ------------------------------------------------------------- destruction
CallDtor(t, v) ==
    /\ life[v] = "live"
    /\ \A u \in Threads : pc[u] # "idle" => v \notin {loc[u].self, loc[u].other}
    /\ Call(t, v, "dt_destroy")
    /\ life' = [life EXCEPT ![v] = "dying"]
    /\ loc' = [loc EXCEPT ![t] = [NoLoc EXCEPT !.op = "dtor", !.self = v]]
    /\ UNCHANGED <<policies, counters, instances, fields, owner, heap, fault>>

\* if (data_) for (i < size_) data_[i].~T();
DtDestroy(t) ==
    /\ pc[t] = "dt_destroy"
    /\ LET v == loc[t].self
           i == loc[t].i IN
       IF data[v] # Null /\ i < size[v]
       THEN /\ heap' = Store(heap, data[v], i, Raw)
            /\ fault' = Fault(~LiveSlot(data[v], i), "bad_destroy")
            /\ loc' = [loc EXCEPT ![t].i = i + 1]
            /\ instances' = instances - 1
            /\ Stay(t)
       ELSE /\ Goto(t, "dt_free")
            /\ UNCHANGED <<heap, fault, loc, instances>>
    /\ UNCHANGED <<policies, counters, life, fields, owner, res, calls, pushed>>

\* if (data_) allocator_type::deallocate(data_); and the object is gone.
DtFree(t) ==
    /\ pc[t] = "dt_free"
    /\ LET v == loc[t].self IN
       /\ heap' = Release(heap, data[v])
       /\ fault' = Fault(data[v] # Null /\ ~heap[data[v]].live, "double_free")
       /\ \E d \in DeallocDestructs(data[v], capacity[v]) : instances' = instances - d
       /\ life' = [life EXCEPT ![v] = "none"]
       /\ data' = [data EXCEPT ![v] = Null]
       /\ size' = [size EXCEPT ![v] = 0]
       /\ capacity' = [capacity EXCEPT ![v] = 0]
       /\ owner' = [owner EXCEPT ![v] = NoThread]
    /\ Return(t)
    /\ UNCHANGED <<policies, counters, calls, pushed>>

\* ------------------------------------- copy and move, between two instances
\* The first statement after the two lock() calls.
AfterLocks(op) ==
    CASE op = "copy_ctor" -> "cp_size"
      [] op = "move_ctor" -> "mv_take"
      [] OTHER -> "as_destroy"

AfterClear(op) == IF op = "copy_assign" THEN "cp_size" ELSE "mv_take"

\* Vector(const Vector& other) and Vector(Vector&& other)
CallCtorFrom(t, op, v, w) ==
    /\ life[v] = "none"
    /\ life[w] = "live"
    /\ Call(t, v, "lk_this")
    /\ life' = [life EXCEPT ![v] = "building"]
    /\ data' = [data EXCEPT ![v] = Null]
    /\ size' = [size EXCEPT ![v] = 0]
    /\ capacity' = [capacity EXCEPT ![v] = 0]
    /\ loc' = [loc EXCEPT ![t] = [NoLoc EXCEPT !.op = op, !.self = v, !.other = w]]
    /\ UNCHANGED <<policies, counters, instances, owner, heap, fault>>

\* An assignment without the test for self-assignment.
CallAssignNoTest(t, op, v, w) ==
    /\ life[v] = "live"
    /\ life[w] = "live"
    /\ Call(t, v, "lk_this")
    /\ loc' = [loc EXCEPT ![t] = [NoLoc EXCEPT !.op = op, !.self = v, !.other = w]]
    /\ UNCHANGED <<policies, counters, instances, life, fields, owner, heap, fault>>

\* operator=(const Vector& other) and operator=(Vector&& other):
\* if (this != &other) { ... } return *this;
CallAssign(t, op, v, w) ==
    /\ life[v] = "live"
    /\ life[w] = "live"
    /\ Call(t, v, IF v # w THEN "lk_this" ELSE "idle")
    /\ loc' = [loc EXCEPT ![t] = [NoLoc EXCEPT !.op = op, !.self = v, !.other = w]]
    /\ UNCHANGED <<policies, counters, instances, life, fields, owner, heap, fault>>

\* mutex_.lock();
LockThis(t) ==
    /\ pc[t] = "lk_this"
    /\ MutexLock(t, loc[t].self)
    /\ Goto(t, "lk_other")
    /\ UNCHANGED <<policies, counters, instances, life, fields, heap, loc, res, calls, pushed, fault>>

\* A second lock() that is left out: the operation goes on without the guard
\* of the other instance.
LockOtherSkipped(t) ==
    /\ pc[t] = "lk_other"
    /\ Goto(t, AfterLocks(loc[t].op))
    /\ UNCHANGED <<policies, counters, instances, life, fields, owner, heap, loc, res, calls, pushed,
                   fault>>

\* other.mutex_.lock();
LockOther(t) ==
    /\ pc[t] = "lk_other"
    /\ MutexLock(t, loc[t].other)
    /\ Goto(t, AfterLocks(loc[t].op))
    /\ UNCHANGED <<policies, counters, instances, life, fields, heap, loc, res, calls, pushed, fault>>

\* One turn of: for (i < size_) data_[i].~T();
AsDestroy(t) ==
    /\ pc[t] = "as_destroy"
    /\ LET v == loc[t].self
           i == loc[t].i IN
       IF i < size[v]
       THEN /\ heap' = Store(heap, data[v], i, Raw)
            /\ fault' = Fault(~LiveSlot(data[v], i), "bad_destroy")
            /\ loc' = [loc EXCEPT ![t].i = i + 1]
            /\ instances' = instances - 1
            /\ Stay(t)
       ELSE /\ Goto(t, "as_free")
            /\ loc' = [loc EXCEPT ![t].i = 0]
            /\ UNCHANGED <<heap, fault, instances>>
    /\ UNCHANGED <<policies, counters, life, fields, owner, res, calls, pushed>>

\* if (data_) allocator_type::deallocate(data_);
AsFree(t) ==
    /\ pc[t] = "as_free"
    /\ LET v == loc[t].self IN
       /\ heap' = Release(heap, data[v])
       /\ fault' = Fault(data[v] # Null /\ ~heap[data[v]].live, "double_free")
       /\ \E d \in DeallocDestructs(data[v], capacity[v]) : instances' = instances - d
    /\ Goto(t, AfterClear(loc[t].op))
    /\ UNCHANGED <<policies, counters, life, fields, owner, loc, res, calls, pushed>>

\* size_ = other.size_;
CpSize(t) ==
    /\ pc[t] = "cp_size"
    /\ size' = [size EXCEPT ![loc[t].self] = size[loc[t].other]]
    /\ Goto(t, "cp_cap")
    /\ UNCHANGED <<policies, counters, instances, life, data, capacity, owner, heap, loc, res, calls,
                   pushed, fault>>

\* capacity_ = other.capacity_;
CpCap(t) ==
    /\ pc[t] = "cp_cap"
    /\ capacity' = [capacity EXCEPT ![loc[t].self] = capacity[loc[t].other]]
    /\ Goto(t, "cp_alloc")
    /\ UNCHANGED <<policies, counters, instances, life, data, size, owner, heap, loc, res, calls,
                   pushed, fault>>

\* A copy that takes the source's buffer instead of allocating one.
CpAllocShares(t) ==
    /\ pc[t] = "cp_alloc"
    /\ data' = [data EXCEPT ![loc[t].self] = data[loc[t].other]]
    /\ Goto(t, "cp_copy")
    /\ UNCHANGED <<policies, counters, instances, life, size, capacity, owner, heap, loc, res, calls,
                   pushed, fault>>

\* if (capacity_ > 0) data_ = allocator_type::allocate(capacity_);
\* else data_ = nullptr;   (the constructor's data_ is nullptr already)
CpAlloc(t) ==
    /\ pc[t] = "cp_alloc"
    /\ LET v == loc[t].self IN
       IF capacity[v] > 0
       THEN \E outcome \in AllocOutcomes :
               IF outcome = "ok"
               THEN /\ HasFresh
                    /\ heap' = [heap EXCEPT ![FreshBuf] =
                                   [live |-> TRUE, slots |-> RawSlots(capacity[v])]]
                    /\ data' = [data EXCEPT ![v] = FreshBuf]
                    /\ instances' = instances + AllocConstructs(capacity[v])
                    /\ Goto(t, "cp_copy")
                    /\ UNCHANGED <<life, size, capacity, owner, loc, res>>
               ELSE IF allocPolicy = "new"
               THEN IF loc[t].op = "copy_ctor"
                    THEN /\ Abandon(t)
                         /\ owner' = [owner EXCEPT ![v] = NoThread]
                         /\ UNCHANGED <<heap, instances>>
                    ELSE Throw(t) /\ UNCHANGED <<life, fields, owner, heap, instances>>
               ELSE /\ data' = [data EXCEPT ![v] = Null]
                    /\ loc' = [loc EXCEPT ![t].refused = TRUE]
                    /\ Goto(t, "cp_copy")
                    /\ UNCHANGED <<life, size, capacity, owner, heap, res, instances>>
       ELSE /\ data' = [data EXCEPT ![v] = Null]
            /\ Goto(t, "ul_other")
            /\ UNCHANGED <<life, size, capacity, owner, heap, loc, res, instances>>
    /\ UNCHANGED <<policies, counters, calls, pushed, fault>>

\* One turn of: for (i < size_) new (&data_[i]) T(other.data_[i]);
CpCopy(t) ==
    /\ pc[t] = "cp_copy"
    /\ LET v == loc[t].self
           w == loc[t].other
           i == loc[t].i IN
       IF i < size[v]
       THEN /\ \E x \in ReadOutcomes(data[w], i) : heap' = Store(heap, data[v], i, x)
            /\ fault' = Fault(~LiveSlot(data[w], i) \/ ~Valid(data[v], i), "bad_write")
            /\ loc' = [loc EXCEPT ![t].i = i + 1]
            /\ instances' = instances + 1
            /\ Stay(t)
       ELSE /\ Goto(t, "ul_other")
            /\ UNCHANGED <<heap, fault, loc, instances>>
    /\ UNCHANGED <<policies, counters, life, fields, owner, res, calls, pushed>>

\* A transfer that takes the buffer and the capacity and leaves size_ alone.
MvTakeLeavesSize(t) ==
    /\ pc[t] = "mv_take"
    /\ LET v == loc[t].self
           w == loc[t].other IN
       /\ data' = [data EXCEPT ![v] = data[w]]
       /\ capacity' = [capacity EXCEPT ![v] = capacity[w]]
       /\ UNCHANGED size
    /\ Goto(t, "mv_reset")
    /\ UNCHANGED <<policies, counters, instances, life, owner, heap, loc, res, calls, pushed, fault>>

\* data_ = other.data_; size_ = other.size_; capacity_ = other.capacity_;
MvTake(t) ==
    /\ pc[t] = "mv_take"
    /\ LET v == loc[t].self
           w == loc[t].other IN
       /\ data' = [data EXCEPT ![v] = data[w]]
       /\ size' = [size EXCEPT ![v] = size[w]]
       /\ capacity' = [capacity EXCEPT ![v] = capacity[w]]
    /\ Goto(t, "mv_reset")
    /\ UNCHANGED <<policies, counters, instances, life, owner, heap, loc, res, calls, pushed, fault>>

\* A reset of the moved-from Vector that leaves its capacity_ behind.
MvResetKeepsCapacity(t) ==
    /\ pc[t] = "mv_reset"
    /\ LET w == loc[t].other IN
       /\ data' = [data EXCEPT ![w] = Null]
       /\ size' = [size EXCEPT ![w] = 0]
       /\ UNCHANGED capacity
    /\ Goto(t, "ul_other")
    /\ UNCHANGED <<policies, counters, instances, life, owner, heap, loc, res, calls, pushed, fault>>

\* A reset of the moved-from Vector that leaves its data_ behind.
MvResetKeepsBuffer(t) ==
    /\ pc[t] = "mv_reset"
    /\ LET w == loc[t].other IN
       /\ size' = [size EXCEPT ![w] = 0]
       /\ capacity' = [capacity EXCEPT ![w] = 0]
       /\ UNCHANGED data
    /\ Goto(t, "ul_other")
    /\ UNCHANGED <<policies, counters, instances, life, owner, heap, loc, res, calls, pushed, fault>>

\* other.data_ = nullptr; other.size_ = 0; other.capacity_ = 0;
MvReset(t) ==
    /\ pc[t] = "mv_reset"
    /\ LET w == loc[t].other IN
       /\ data' = [data EXCEPT ![w] = Null]
       /\ size' = [size EXCEPT ![w] = 0]
       /\ capacity' = [capacity EXCEPT ![w] = 0]
    /\ Goto(t, "ul_other")
    /\ UNCHANGED <<policies, counters, instances, life, owner, heap, loc, res, calls, pushed, fault>>

\* other.mutex_.unlock();
UnlockOther(t) ==
    /\ pc[t] = "ul_other"
    /\ MutexUnlock(t, loc[t].other)
    /\ Goto(t, "ul_this")
    /\ UNCHANGED <<policies, counters, instances, life, fields, heap, loc, res, calls, pushed, fault>>

\* mutex_.unlock(); and the operation returns.
UnlockThis(t) ==
    /\ pc[t] = "ul_this"
    /\ MutexUnlock(t, loc[t].self)
    /\ life' = [life EXCEPT ![loc[t].self] = "live"]
    /\ Return(t)
    /\ UNCHANGED <<policies, counters, instances, fields, heap, calls, pushed, fault>>

\* ------------------------------------------------- testMultiThreaded worker
PushValue(t, j) == t * 100 + j

\* The driver of thread t issues one more operation.
Issue(t) == calls' = [calls EXCEPT ![t] = @ + 1]

\* The j-th push_back of worker t on the shared Vector.
WorkerPush(t) ==
    /\ calls[t] < MaxPush
    /\ Issue(t)
    /\ UNCHANGED <<pushed, pre, mark>>
    /\ Call(t, "A", "pb_lock")
    /\ loc' = [loc EXCEPT ![t] = [NoLoc EXCEPT !.op = "push_back", !.self = "A",
                                               !.value = PushValue(t - 1, calls[t])]]
    /\ UNCHANGED <<policies, counters, instances, life, fields, owner, heap, fault>>

\* ------------------------------------------------------------ initial state
InitCommon ==
    /\ owner = [v \in Vecs |-> NoThread]
    /\ pc = [t \in Threads |-> "idle"]
    /\ loc = [t \in Threads |-> NoLoc]
    /\ res = [t \in Threads |-> "ok"]
    /\ calls = [t \in Threads |-> 0]
    /\ pushed = [v \in Vecs |-> << >>]
    /\ pre = [t \in Threads |-> NoPre]
    /\ mark = [v \in Vecs |-> NoPre]
    /\ fault = "none"
    /\ count = [d \in Classes |-> 0]
    /\ alive = [d \in Classes |-> 0]

EmptyHeap == [b \in Bufs |-> DeadBuf]

\* The count of instances of a run that starts with the Vectors populated: one
\* for each element a Vector constructed and, with new T[n], one for each slot.
InitInstances ==
    instances =
        (IF heap[1].live THEN size["A"] + AllocConstructs(capacity["A"]) ELSE 0)
        + (IF heap[2].live THEN size["B"] + AllocConstructs(capacity["B"]) ELSE 0)

\* s followed by raw slots up to capacity c.
Padded(s, c) == [k \in 1..c |-> IF k <= Len(s) THEN s[k] ELSE Raw]

\* The Vectors of S default-constructed, the others not constructed yet.
InitDefault(S) ==
    /\ life = [v \in Vecs |-> IF v \in S THEN "live" ELSE "none"]
    /\ data = [v \in Vecs |-> Null]
    /\ size = [v \in Vecs |-> 0]
    /\ capacity = [v \in Vecs |-> 0]
    /\ heap = EmptyHeap

\* A holds sa in a buffer of capacity ca, B holds sb in one of capacity cb:
\* the state push_back and reserve calls leave them in.
InitBoth(sa, ca, sb, cb) ==
    /\ life = [v \in Vecs |-> "live"]
    /\ data = [v \in Vecs |-> IF v = "A" THEN 1 ELSE 2]
    /\ size = [v \in Vecs |-> IF v = "A" THEN Len(sa) ELSE Len(sb)]
    /\ capacity = [v \in Vecs |-> IF v = "A" THEN ca ELSE cb]
    /\ heap = [b \in Bufs |-> IF b = 1 THEN [live |-> TRUE, slots |-> Padded(sa, ca)]
                              ELSE IF b = 2 THEN [live |-> TRUE, slots |-> Padded(sb, cb)]
                              ELSE DeadBuf]

PushBackSteps(t) ==
    \/ PbLock(t) \/ PbCheck(t) \/ PbConstruct(t) \/ PbInc(t) \/ PbUnlock(t)

ReserveSteps(t) ==
    \/ RsCheck(t) \/ RsAlloc(t) \/ RsMove(t) \/ RsFree(t) \/ RsAssign(t)

PopBackSteps(t) ==
    \/ PoLock(t) \/ PoCheck(t) \/ PoDestroy(t) \/ PoUnlock(t)

IndexSteps(t) ==
    \/ IxLock(t) \/ IxRef(t) \/ IxUnlock(t) \/ IxUse(t)

PrintSteps(t) == PrLock(t) \/ PrRead(t) \/ PrUnlock(t)

SizedCtorSteps(t) == ScAlloc(t) \/ ScConstruct(t)

DtorSteps(t) == DtDestroy(t) \/ DtFree(t)

LockSteps(t) == LockThis(t) \/ LockOther(t) \/ UnlockOther(t) \/ UnlockThis(t)

ClearSteps(t) == AsDestroy(t) \/ AsFree(t)

CopySteps(t) == CpSize(t) \/ CpCap(t) \/ CpAlloc(t) \/ CpCopy(t)

MoveSteps(t) == MvTake(t) \/ MvReset(t)

\* ------------------------------------------------- testMultiThreaded: workers
\* One default-constructed Vector shared by the workers.
InitPush ==
    /\ InitCommon
    /\ InitDefault({"A"})
    /\ allocPolicy \in {"malloc", "new"}
    /\ threadPolicy = "multi"
    /\ oom = FALSE
    /\ throwing = FALSE
    /\ InitInstances

NextPush ==
    \E t \in Threads :
        \/ WorkerPush(t)
        \/ PushBackSteps(t)
        \/ ReserveSteps(t)

SpecPush == InitPush /\ [][NextPush]_vars

\* ------------------------------------ one thread, any sequence of operations
InitSeq ==
    /\ InitCommon
    /\ InitDefault({})
    /\ allocPolicy \in {"malloc", "new"}
    /\ threadPolicy = "multi"
    /\ oom = FALSE
    /\ throwing = FALSE
    /\ InitInstances

\* The driver notes the state of v at the call.
Remember(t, v) == pre' = [pre EXCEPT ![t] = Snapshot(v)]

CallSeq(t) ==
    /\ UNCHANGED <<calls, pushed, mark>>
    /\ \E v \in Vecs :
         /\ Remember(t, v)
         /\ \/ DefaultCtor(t, v)
            \/ \E n \in 0..MaxCap : CallSizedCtor(t, v, n)
            \/ CallDtor(t, v)
            \/ \E w \in Vecs, op \in {"copy_ctor", "move_ctor"} : CallCtorFrom(t, op, v, w)
            \/ \E w \in Vecs, op \in {"copy_assign", "move_assign"} : CallAssign(t, op, v, w)
            \/ \E x \in Values : NewCapacity(capacity[v]) <= MaxCap /\ CallPushBack(t, v, x)
            \/ CallPopBack(t, v)
            \/ \E n \in 0..MaxCap : CallReserve(t, v, n)

SeqSteps(t) ==
    \/ PushBackSteps(t) \/ ReserveSteps(t) \/ PopBackSteps(t)
    \/ SizedCtorSteps(t) \/ DtorSteps(t) \/ LockSteps(t) \/ ClearSteps(t)
    \/ CopySteps(t) \/ MoveSteps(t)

NextSeq == CallSeq(1) \/ SeqSteps(1)

SpecSeq == InitSeq /\ [][NextSeq]_vars

Spec == SpecSeq

\* ------------------------- one thread, operations that can fail part-way
\* As SpecSeq, on a system that can refuse an allocation and with an element
\* type whose default constructor can throw.
InitFail ==
    /\ InitCommon
    /\ InitDefault({})
    /\ allocPolicy \in {"malloc", "new"}
    /\ threadPolicy = "multi"
    /\ oom = TRUE
    /\ throwing = TRUE
    /\ InitInstances

\* The caller issues no further operation once one has failed.
CallFail(t) == (\A u \in Threads : res[u] = "ok") /\ CallSeq(t)

NextFail == CallFail(1) \/ SeqSteps(1)

SpecFail == InitFail /\ [][NextFail]_vars

\* ----------------------------- one thread, push_back calls only (lines 331-336)
InitPushSeq ==
    /\ InitCommon
    /\ InitDefault({"A"})
    /\ allocPolicy \in {"malloc", "new"}
    /\ threadPolicy \in {"single", "multi"}
    /\ oom = FALSE
    /\ throwing = FALSE
    /\ InitInstances

PushNext(t) ==
    /\ Len(pushed["A"]) < MaxSeq
    /\ \E x \in Values :
          /\ CallPushBack(t, "A", x)
          /\ pushed' = [pushed EXCEPT !["A"] = Append(@, x)]
    /\ UNCHANGED <<calls, pre, mark>>

NextPushSeq == PushNext(1) \/ PushBackSteps(1) \/ ReserveSteps(1)

SpecPushSeq == InitPushSeq /\ [][NextPushSeq]_vars

\* ------------------------------------------- two threads, cross assignment
Pair == {1, 2}

\* A and B populated; thread 1 runs A = B while thread 2 runs B = A.
InitAssign ==
    /\ InitCommon
    /\ \E a \in Values, b \in Values, c \in Values : InitBoth(<<a>>, 1, <<b, c>>, 2)
    /\ allocPolicy \in {"malloc", "new"}
    /\ threadPolicy = "multi"
    /\ oom = FALSE
    /\ throwing = FALSE
    /\ InitInstances

CrossAssign(t) ==
    /\ calls[t] = 0
    /\ Issue(t)
    /\ \E op \in {"copy_assign", "move_assign"} :
          CallAssign(t, op, IF t = 1 THEN "A" ELSE "B", IF t = 1 THEN "B" ELSE "A")
    /\ UNCHANGED <<pushed, pre, mark>>

NextAssign ==
    \E t \in Pair :
        \/ CrossAssign(t)
        \/ LockSteps(t) \/ ClearSteps(t) \/ CopySteps(t) \/ MoveSteps(t)

SpecAssign == InitAssign /\ [][NextAssign]_vars

\* ------------------------------------------- two threads, one shared Vector
\* A holds one element in a buffer of capacity 1 or 2; B is the source of an
\* assignment to A.
InitShared ==
    /\ InitCommon
    /\ \E a \in Values, b \in Values, ca \in 1..2 : InitBoth(<<a>>, ca, <<b>>, 1)
    /\ allocPolicy \in {"malloc", "new"}
    /\ threadPolicy = "multi"
    /\ oom = FALSE
    /\ throwing = FALSE
    /\ InitInstances

\* Each thread issues one operation on A.
SharedCall(t) ==
    /\ calls[t] = 0
    /\ Issue(t)
    /\ \/ \E x \in Values : CallPushBack(t, "A", x)
       \/ CallPopBack(t, "A")
       \/ \E n \in 1..MaxCap : CallReserve(t, "A", n)
       \/ \E kind \in {"read", "write"}, x \in Values : CallIndex(t, "A", 0, kind, x)
       \/ \E op \in {"copy_assign", "move_assign"} : CallAssign(t, op, "A", "B")
    /\ UNCHANGED <<pushed, pre, mark>>

NextShared ==
    \E t \in Pair :
        \/ SharedCall(t)
        \/ PushBackSteps(t) \/ ReserveSteps(t) \/ PopBackSteps(t) \/ IndexSteps(t)
        \/ LockSteps(t) \/ ClearSteps(t) \/ CopySteps(t) \/ MoveSteps(t)

SpecShared == InitShared /\ [][NextShared]_vars

\* ------------------------- one thread, push_back and pop_back on one Vector
InitGrow ==
    /\ InitCommon
    /\ InitDefault({"A"})
    /\ allocPolicy \in {"malloc", "new"}
    /\ threadPolicy \in {"single", "multi"}
    /\ oom = FALSE
    /\ throwing = FALSE
    /\ InitInstances

\* The caller compares size() with capacity() before each push_back and counts
\* the calls it makes on a full Vector.
GrowPush(t) ==
    /\ Len(pushed["A"]) < MaxSeq
    /\ \E x \in Values :
          /\ CallPushBack(t, "A", x)
          /\ pushed' = [pushed EXCEPT !["A"] = Append(@, x)]
    /\ calls' = [calls EXCEPT ![t] = IF size["A"] = capacity["A"] THEN @ + 1 ELSE @]
    /\ Remember(t, "A")
    /\ UNCHANGED mark

GrowPop(t) ==
    /\ CallPopBack(t, "A")
    /\ Remember(t, "A")
    /\ UNCHANGED <<calls, pushed, mark>>

NextGrow ==
    \/ GrowPush(1) \/ GrowPop(1)
    \/ PushBackSteps(1) \/ ReserveSteps(1) \/ PopBackSteps(1)

SpecGrow == InitGrow /\ [][NextGrow]_vars

\* The same calls made by a thread that is scheduled: a statement of the
\* operation it is in that can run does run.
SpecGrowFair ==
    SpecGrow /\ WF_vars(PushBackSteps(1) \/ ReserveSteps(1) \/ PopBackSteps(1))

\* ------------------- one thread, a push_back immediately followed by pop_back
\* The caller notes the state of v for a later comparison.
Note(v) == mark' = [mark EXCEPT ![v] = Snapshot(v)]

PopNext(t) ==
    /\ CallPopBack(t, "A")
    /\ UNCHANGED <<calls, pre, pushed, mark>>

\* Any push_back and pop_back calls bring the Vector to some state; there the
\* caller notes it and calls push_back (calls = 1), then pop_back (calls = 2).
RoundPush(t) ==
    /\ calls[t] = 0
    /\ Issue(t)
    /\ Note("A")
    /\ \E x \in Values : CallPushBack(t, "A", x)
    /\ UNCHANGED <<pre, pushed>>

RoundPop(t) ==
    /\ calls[t] = 1
    /\ Issue(t)
    /\ CallPopBack(t, "A")
    /\ UNCHANGED <<pre, pushed, mark>>

NextRound ==
    \/ calls[1] = 0 /\ PushNext(1)
    \/ calls[1] = 0 /\ PopNext(1)
    \/ RoundPush(1) \/ RoundPop(1)
    \/ PushBackSteps(1) \/ ReserveSteps(1) \/ PopBackSteps(1)

SpecRound == InitGrow /\ [][NextRound]_vars

\* ------------------------------------ one thread, A = A and A = std::move(A)
\* Any push_back and pop_back calls bring A to some state; there the caller
\* notes it and assigns A to itself (calls = 1).
SelfAssign(t) ==
    /\ calls[t] = 0
    /\ Issue(t)
    /\ Note("A")
    /\ \E op \in {"copy_assign", "move_assign"} : CallAssign(t, op, "A", "A")
    /\ UNCHANGED <<pre, pushed>>

NextSelf ==
    \/ calls[1] = 0 /\ PushNext(1)
    \/ calls[1] = 0 /\ PopNext(1)
    \/ SelfAssign(1)
    \/ PushBackSteps(1) \/ ReserveSteps(1) \/ PopBackSteps(1)

SpecSelf == InitGrow /\ [][NextSelf]_vars

\* ------------------------------------------ one thread, A.push_back(A[i])
\* Any push_back calls bring A to some state (pushed["A"] lists the values);
\* there the caller evaluates A[i] (calls = 1) and passes the reference to
\* push_back (calls = 2), noting the value the element has at that call.
AliasArg(t) ==
    /\ calls[t] = 0
    /\ Issue(t)
    /\ \E i \in 0..(size["A"] - 1) : CallIndex(t, "A", i, "arg", DefaultElem)
    /\ UNCHANGED <<pushed, pre, mark>>

AliasPush(t) ==
    /\ calls[t] = 1
    /\ Issue(t)
    /\ PbCallRef(t)
    /\ pushed' = [pushed EXCEPT !["A"] = Append(@, loc'[t].value)]
    /\ UNCHANGED <<pre, mark>>

NextAlias ==
    \/ calls[1] = 0 /\ PushNext(1)
    \/ AliasArg(1) \/ AliasPush(1)
    \/ IxLock(1) \/ IxRef(1) \/ IxUnlock(1)
    \/ PushBackSteps(1) \/ ReserveSteps(1)

SpecAlias == InitGrow /\ [][NextAlias]_vars

\* --------------------- one thread, a copy of A into B and then changes of B
\* A holds one or two elements in a buffer of capacity 2; B holds one.
InitCopy ==
    /\ InitCommon
    /\ \E a \in Values, b \in Values, c \in Values, n \in 1..2 :
          InitBoth(SubSeq(<<a, b>>, 1, n), 2, <<c>>, 1)
    /\ allocPolicy \in {"malloc", "new"}
    /\ threadPolicy \in {"single", "multi"}
    /\ oom = FALSE
    /\ throwing = FALSE
    /\ InitInstances

\* B goes out of scope before the copy, so that the copy constructs it.
CopyScopeEnd(t) ==
    /\ calls[t] = 0
    /\ CallDtor(t, "B")
    /\ UNCHANGED <<calls, pre, pushed, mark>>

\* Vector B = A (B not constructed) or B = A (B constructed); the caller
\* notes A at the call (calls = 1).
CopyCall(t) ==
    /\ calls[t] = 0
    /\ Issue(t)
    /\ Note("A")
    /\ IF life["B"] = "none"
       THEN CallCtorFrom(t, "copy_ctor", "B", "A")
       ELSE CallAssign(t, "copy_assign", "B", "A")
    /\ UNCHANGED <<pre, pushed>>

\* After the copy the caller changes B (calls = 2) by any of push_back,
\* pop_back, reserve and writes through operator[].
CopyChange(t) ==
    /\ calls[t] \in {1, 2}
    /\ calls' = [calls EXCEPT ![t] = 2]
    /\ \/ \E x \in Values :
             /\ size["B"] < capacity["B"] \/ NewCapacity(capacity["B"]) <= 2 * MaxCap
             /\ CallPushBack(t, "B", x)
       \/ CallPopBack(t, "B")
       \/ \E n \in 1..(MaxCap + 1) : CallReserve(t, "B", n)
       \/ \E i \in 0..(MaxCap - 1), x \in Values : CallIndex(t, "B", i, "write", x)
    /\ UNCHANGED <<pre, pushed, mark>>

NextCopy ==
    \/ CopyScopeEnd(1) \/ CopyCall(1) \/ CopyChange(1)
    \/ DtorSteps(1) \/ LockSteps(1) \/ ClearSteps(1) \/ CopySteps(1)
    \/ PushBackSteps(1) \/ ReserveSteps(1) \/ PopBackSteps(1) \/ IndexSteps(1)

SpecCopy == InitCopy /\ [][NextCopy]_vars

\* ------------------------------------------- one thread, a move of A into B
\* Vector B = std::move(A) (B not constructed) or B = std::move(A); the
\* caller notes A at the call (calls = 1).
MoveCall(t) ==
    /\ calls[t] = 0
    /\ Issue(t)
    /\ Note("A")
    /\ IF life["B"] = "none"
       THEN CallCtorFrom(t, "move_ctor", "B", "A")
       ELSE CallAssign(t, "move_assign", "B", "A")
    /\ UNCHANGED <<pre, pushed>>

NextMove ==
    \/ CopyScopeEnd(1) \/ MoveCall(1)
    \/ DtorSteps(1) \/ LockSteps(1) \/ ClearSteps(1) \/ MoveSteps(1)

SpecMove == InitCopy /\ [][NextMove]_vars

\* ------------------------- one thread, a Vector built, used and destroyed
\* The caller notes the size and capacity of v and the count of instances.
NoteCount(v) ==
    mark' = [mark EXCEPT ![v] = [size |-> size[v], capacity |-> capacity[v],
                                 instances |-> instances]]

\* The caller constructs A and brings it to some size and capacity.
DestroyPrep(t) ==
    /\ calls[t] = 0
    /\ \/ DefaultCtor(t, "A")
       \/ \E n \in 0..MaxCap : CallSizedCtor(t, "A", n)
       \/ \E x \in Values : NewCapacity(capacity["A"]) <= MaxCap /\ CallPushBack(t, "A", x)
       \/ CallPopBack(t, "A")
       \/ \E n \in 1..MaxCap : CallReserve(t, "A", n)
    /\ UNCHANGED <<calls, pre, pushed, mark>>

\* A goes out of scope (calls = 1); the caller notes the count before.
DestroyCall(t) ==
    /\ calls[t] = 0
    /\ Issue(t)
    /\ NoteCount("A")
    /\ CallDtor(t, "A")
    /\ UNCHANGED <<pre, pushed>>

NextDestroy ==
    \/ DestroyPrep(1) \/ DestroyCall(1)
    \/ SizedCtorSteps(1) \/ PushBackSteps(1) \/ ReserveSteps(1) \/ PopBackSteps(1)
    \/ DtorSteps(1)

SpecDestroy == InitSeq /\ [][NextDestroy]_vars

\* ------------- one thread, operations that can fail, then every Vector destroyed
\* As SpecSeq, on a system that can refuse an allocation.
InitCleanup ==
    /\ InitCommon
    /\ InitDefault({})
    /\ allocPolicy \in {"malloc", "new"}
    /\ threadPolicy = "multi"
    /\ oom = TRUE
    /\ throwing = FALSE
    /\ InitInstances

\* The caller issues operations while none has failed and it has not begun to
\* leave the scope of the Vectors.
WorkCall(t) == calls[t] = 0 /\ res[t] = "ok" /\ CallSeq(t)

\* The Vectors go out of scope (calls = 1), at the end of the run or when an
\* exception unwinds it: each constructed Vector is destroyed.
ScopeEnd(t) ==
    /\ calls' = [calls EXCEPT ![t] = 1]
    /\ \E v \in Vecs : Remember(t, v) /\ CallDtor(t, v)
    /\ UNCHANGED <<pushed, mark>>

NextCleanup == WorkCall(1) \/ ScopeEnd(1) \/ SeqSteps(1)

SpecCleanup == InitCleanup /\ [][NextCleanup]_vars

\* -------------------- two threads: one copies A into B, one changes A
\* The second thread calls push_back and pop_back on A, MaxPush times.
SnapWorker(t) ==
    /\ calls[t] < MaxPush
    /\ Issue(t)
    /\ \/ \E x \in Values : CallPushBack(t, "A", x)
       \/ CallPopBack(t, "A")
    /\ UNCHANGED <<pre, pushed, mark>>

NextSnap ==
    \/ CopyScopeEnd(1) \/ CopyCall(1) \/ SnapWorker(2)
    \/ \E t \in Pair :
          \/ DtorSteps(t) \/ LockSteps(t) \/ ClearSteps(t) \/ CopySteps(t)
          \/ PushBackSteps(t) \/ ReserveSteps(t) \/ PopBackSteps(t)

SpecSnap == InitShared /\ [][NextSnap]_vars

\* ------------------------ two threads, guarded operations on two Vectors
\* Each thread issues one guarded operation: push_back, pop_back, operator[]
\* or print on A, or a copy or move assignment between A and B either way.
GuardCall(t) ==
    /\ calls[t] = 0
    /\ Issue(t)
    /\ \/ \E x \in Values : CallPushBack(t, "A", x)
       \/ CallPopBack(t, "A")
       \/ \E kind \in {"read", "write"}, x \in Values : CallIndex(t, "A", 0, kind, x)
       \/ CallPrint(t, "A")
       \/ \E op \in {"copy_assign", "move_assign"}, v \in Vecs, w \in Vecs :
             v # w /\ CallAssign(t, op, v, w)
    /\ UNCHANGED <<pushed, pre, mark>>

NextGuard ==
    \E t \in Pair :
        \/ GuardCall(t)
        \/ PushBackSteps(t) \/ ReserveSteps(t) \/ PopBackSteps(t) \/ IndexSteps(t)
        \/ PrintSteps(t)
        \/ LockSteps(t) \/ ClearSteps(t) \/ CopySteps(t) \/ MoveSteps(t)

SpecGuard == InitShared /\ [][NextGuard]_vars

\* ------------------------------- testMultiThreaded: workers, with DebugMode
\* DebugPolicy::log("push_back(", value, ")") is the first statement of
\* push_back, before mutex_.lock(): with DebugMode the line for the value is
\* emitted when the call begins, and pushed["A"] is the sequence of the lines.
LogPush(t) ==
    /\ calls[t] < MaxPush
    /\ Issue(t)
    /\ CallPushBack(t, "A", PushValue(t - 1, calls[t]))
    /\ pushed' = [pushed EXCEPT !["A"] = Append(@, PushValue(t - 1, calls[t]))]
    /\ UNCHANGED <<pre, mark>>

NextLog ==
    \E t \in Threads :
        \/ LogPush(t)
        \/ PushBackSteps(t)
        \/ ReserveSteps(t)

SpecLog == InitPush /\ [][NextLog]_vars

\* ------------------------------------- Countable<Derived> (template_CRTP.cpp)
\* No statement of Countable touches a Vector.
vector == <<policies, life, fields, owner, heap, pc, loc, res, calls, pre, pushed, mark,
            instances, fault>>

\* static int getCount() { return count; }
getCount(d) == count[d]

\* D x;  runs Countable() { ++count; }
CountableCtor(d) ==
    /\ alive[d] < MaxObjects
    /\ count' = [count EXCEPT ![d] = @ + 1]
    /\ alive' = [alive EXCEPT ![d] = @ + 1]
    /\ UNCHANGED vector

\* D y = x;  Countable declares no copy constructor: the implicit one runs,
\* which has no statement. alive[d] - count[d] is the number of copies made.
CountableCopy(d) ==
    /\ alive[d] > 0
    /\ alive[d] < MaxObjects
    /\ alive[d] - count[d] < MaxObjects
    /\ alive' = [alive EXCEPT ![d] = @ + 1]
    /\ UNCHANGED <<count, vector>>

\* An object of class d goes out of scope: ~Countable() { --count; }
CountableDtor(d) ==
    /\ alive[d] > 0
    /\ count' = [count EXCEPT ![d] = @ - 1]
    /\ alive' = [alive EXCEPT ![d] = @ - 1]
    /\ UNCHANGED vector

InitCount ==
    /\ InitCommon
    /\ InitDefault({})
    /\ allocPolicy = "malloc"
    /\ threadPolicy = "single"
    /\ oom = FALSE
    /\ throwing = FALSE
    /\ InitInstances

NextCount ==
    \E d \in Classes : CountableCtor(d) \/ CountableCopy(d) \/ CountableDtor(d)

SpecCount == InitCount /\ [][NextCount]_vars

\* ================================================================== claims
\* An operation of thread t is running on v.
Busy(v) == \E t \in Threads : pc[t] # "idle" /\ v \in {loc[t].self, loc[t].other}

\* t is between the lock() and the unlock() of a push_back or pop_back.
InGuarded(t) ==
    \/ pc[t] \in {"pb_check", "pb_construct", "pb_inc", "pb_unlock",
                  "po_check", "po_destroy", "po_unlock"}
    \/ loc[t].op = "push_back" /\ pc[t] \in {"rs_check", "rs_alloc", "rs_move", "rs_free",
                                              "rs_assign"}

\* t is in the body of a reserve it was called for directly.
InDirectReserve(t) ==
    loc[t].op = "reserve" /\ pc[t] \in {"rs_check", "rs_alloc", "rs_move", "rs_free",
                                         "rs_assign"}

\* v's counters describe the buffer v designates.
WellFormed(v) ==
    \/ data[v] = Null /\ size[v] = 0 /\ capacity[v] = 0
    \/ /\ data[v] # Null
       /\ heap[data[v]].live
       /\ Len(heap[data[v]].slots) = capacity[v]
       /\ size[v] <= capacity[v]

\* Allocated storage no pointer of the program designates any more.
Leaked == {b \in Bufs : heap[b].live /\ b \notin Referenced}

\* t's last operation, one of ops, ended by a failure.
Failed(t, ops) == pc[t] = "idle" /\ res[t] \in {"threw", "refused"} /\ loc[t].op \in ops

\* C1: when two threads run the cross assignments A = B and B = A, no state is
\* reached in which each holds the guard of its own destination and waits for
\* the guard of the other's.
CrossWait ==
    \E t \in Threads, u \in Threads :
        /\ t # u
        /\ pc[t] = "lk_other" /\ pc[u] = "lk_other"
        /\ owner[loc[t].self] = t /\ owner[loc[u].self] = u
        /\ loc[t].other = loc[u].self /\ loc[u].other = loc[t].self

C1_NoCrossDeadlock == ~CrossWait

\* C2: when every worker has returned from its MaxPush push_back calls on the
\* shared Vector, size() is NThreads * MaxPush and the elements are the pushed
\* values, each exactly once; until then some worker can take a step.
WorkersDone == \A t \in Threads : pc[t] = "idle" /\ calls[t] = MaxPush

WorkerValues == {PushValue(t - 1, j) : t \in Threads, j \in 0..(MaxPush - 1)}

C2_NoLostPush ==
    /\ WorkersDone =>
          /\ size["A"] = NThreads * MaxPush
          /\ \A k \in 1..size["A"] : LiveSlot(data["A"], k - 1)
          /\ {Elems("A")[k] : k \in 1..size["A"]} = WorkerValues
          /\ fault = "none"
    /\ ~WorkersDone => ENABLED NextPush

\* C2 witness: the workers are done and their pushes interleaved: the second
\* worker's first value lies before the first worker's, in a buffer that grew
\* to hold them all.
C2_Witness ==
    /\ WorkersDone
    /\ Elems("A")[1] = PushValue(1, 0)
    /\ Elems("A")[2] = PushValue(0, 0)
    /\ capacity["A"] >= NThreads * MaxPush

\* C3: a thread in the body of a reserve called directly is never there while
\* another thread is inside push_back, pop_back or reserve on the same Vector.
C3_ReserveExclusive ==
    \A t \in Threads, u \in Threads :
        (t # u /\ InDirectReserve(t) /\ loc[u].self = loc[t].self)
            => ~(InGuarded(u) \/ InDirectReserve(u))

\* C4: whenever a caller is about to read or write through the reference that
\* operator[] returned, the reference designates a constructed element of an
\* allocated buffer.
C4_ReferenceLive ==
    \A t \in Threads : pc[t] = "ix_use" => LiveSlot(loc[t].ref[1], loc[t].ref[2])

\* C5: a thread that is in no operation holds no guard.
C5_GuardReleased ==
    \A t \in Threads : pc[t] = "idle" => \A v \in Vecs : owner[v] # t

\* C6: after a reserve or push_back whose allocation was refused, the Vector
\* has the buffer, size, capacity and elements it had at the call.
C6_GrowthFailureKeepsState ==
    \A t \in Threads :
        Failed(t, {"reserve", "push_back"}) => Snapshot(loc[t].self) = pre[t]

\* C7: after a copy assignment or copy construction whose allocation was
\* refused, the destination (if it exists) is as it was at the call, its
\* counters describe the buffer it designates, and that buffer is allocated.
C7_CopyFailureKeepsState ==
    \A t \in Threads :
        (Failed(t, {"copy_assign", "copy_ctor"}) /\ life[loc[t].self] = "live")
            => /\ Snapshot(loc[t].self) = pre[t]
               /\ WellFormed(loc[t].self)

\* C8: after a sized construction that failed, no buffer stays allocated and no
\* element stays constructed.
C8_SizedCtorFailureReleases ==
    \A t \in Threads : Failed(t, {"sized_ctor"}) => Leaked = {}

\* C9: every constructed Vector no operation is running on has
\* 0 <= size <= capacity, and a null buffer exactly when capacity = 0.
C9_SizeCapacityBuffer ==
    \A v \in Vecs :
        (life[v] = "live" /\ ~Busy(v))
            => /\ 0 <= size[v]
               /\ size[v] <= capacity[v]
               /\ (data[v] = Null) <=> (capacity[v] = 0)

\* C9 witness: A is full after a growth that relocated an element, B is a
\* constructed Vector left empty with its buffer.
C9_Witness ==
    /\ \A t \in Threads : pc[t] = "idle"
    /\ life["A"] = "live" /\ size["A"] = 2 /\ capacity["A"] = 2
    /\ life["B"] = "live" /\ size["B"] = 0 /\ capacity["B"] = 1

\* C10: after N push_back calls on a default-constructed Vector, size() is N
\* and the element at each index is the value pushed at that position.
C10_PushOrder ==
    pc[1] = "idle" => /\ size["A"] = Len(pushed["A"])
                      /\ Elems("A") = pushed["A"]

\* C10 witness: MaxSeq pushes of differing values have returned, the buffer
\* relocated on the way.
C10_Witness ==
    /\ pc[1] = "idle"
    /\ Len(pushed["A"]) = MaxSeq
    /\ pushed["A"][1] # pushed["A"][2]
    /\ capacity["A"] >= 4

\* C11: on a Vector that starts with capacity 0, the push_back calls made on a
\* full Vector are exactly the calls that change the capacity, and after the
\* k-th of them the capacity is 2^(k-1).
C11_DoublingLaw ==
    /\ pc[1] = "idle" =>
          capacity["A"] = IF calls[1] = 0 THEN 0 ELSE 2 ^ (calls[1] - 1)
    /\ (pc[1] = "pb_unlock" /\ calls[1] >= 1) =>
          /\ (capacity["A"] # pre[1].capacity) <=> (pre[1].size = pre[1].capacity)
          /\ capacity["A"] = 2 ^ (calls[1] - 1)

\* C11 witness: the last of MaxSeq push_back calls is about to return, three
\* of the calls grew the Vector, and the capacity is 4.
C11_Witness ==
    /\ pc[1] = "pb_unlock"
    /\ calls[1] = 3
    /\ capacity["A"] = 4
    /\ Len(pushed["A"]) = MaxSeq

\* C12: the step by which a direct reserve(n) returns leaves the Vector as it
\* was at the call when n <= capacity(); when n > capacity() it leaves
\* capacity() = n, the size of the call, and the elements of the call at the
\* same indices, with no memory error.
ReserveReturns(t) == loc[t].op = "reserve" /\ pc[t] # "idle" /\ pc'[t] = "idle"

C13_PushPopRoundTrip ==
    (pc[1] = "idle" /\ calls[1] = 2) =>
        /\ size["A"] = mark["A"].size
        /\ Elems("A") = mark["A"].elems
        /\ \A k \in 1..size["A"] : LiveSlot(data["A"], k - 1)
        /\ fault = "none"

\* C13 witness: the round trip is over on a Vector that held two differing
\* elements and was full, so that the push_back relocated them.
C13_Witness ==
    /\ pc[1] = "idle" /\ calls[1] = 2
    /\ mark["A"].size = 2
    /\ mark["A"].elems[1] # mark["A"].elems[2]
    /\ mark["A"].capacity = 2
    /\ capacity["A"] = 4
    /\ data["A"] # mark["A"].data

\* C14: when the copy construction or copy assignment of B from a populated A
\* has returned, B has A's size, capacity and elements; and from the call of
\* the copy on, through every later push_back, pop_back, reserve and indexed
\* write on B, A keeps the buffer, size, capacity and elements it had.
C14_CopyIndependent ==
    /\ (pc[1] = "idle" /\ calls[1] = 1) =>
          /\ size["B"] = size["A"]
          /\ capacity["B"] = capacity["A"]
          /\ Elems("B") = Elems("A")
          /\ \A k \in 1..size["B"] : LiveSlot(data["B"], k - 1)
    /\ calls[1] >= 1 =>
          /\ Snapshot("A") = mark["A"]
          /\ fault = "none"

\* C14 witness: B was copied from A = [a, b] and then changed: it has grown
\* into a larger buffer and its first element was overwritten with a value
\* that differs from A's.
C14_Witness ==
    /\ pc[1] = "idle" /\ calls[1] = 2
    /\ size["A"] = 2
    /\ capacity["B"] = 2 * capacity["A"]
    /\ size["B"] >= 1
    /\ Elems("B")[1] # Elems("A")[1]

\* The slots of allocated storage that hold a constructed element.
Constructed ==
    {s \in UNION {{<<b, k>> : k \in 1..Len(heap[b].slots)} : b \in Bufs} :
        heap[s[1]].slots[s[2]] # Raw}

\* C15: when the move construction or move assignment of B from a populated A
\* has returned, B has the buffer, size, capacity and elements A had at the
\* call and A has a null buffer, size 0 and capacity 0; and no step of the
\* move constructs an element: every constructed slot was one before the step,
\* with the same value.
Moving(t) == loc[t].op \in {"move_ctor", "move_assign"} /\ pc[t] # "idle"

C15_MoveTransfers ==
    /\ [](pc[1] = "idle" /\ calls[1] = 1 =>
             /\ data["B"] = mark["A"].data
             /\ size["B"] = mark["A"].size
             /\ capacity["B"] = mark["A"].capacity
             /\ Elems("B") = mark["A"].elems
             /\ heap[data["B"]].live
             /\ data["A"] = Null /\ size["A"] = 0 /\ capacity["A"] = 0
             /\ fault = "none")
    /\ [][Moving(1) => (\A s \in Constructed' :
                           s \in Constructed /\ heap'[s[1]].slots[s[2]] = heap[s[1]].slots[s[2]])]_vars

\* C15 witness: the move of A = [a, b] into B has returned; B has A's buffer
\* with both elements and A is empty.
C15_Witness ==
    /\ pc[1] = "idle" /\ calls[1] = 1
    /\ mark["A"].size = 2
    /\ mark["A"].elems[1] # mark["A"].elems[2]
    /\ data["B"] = mark["A"].data
    /\ size["B"] = 2
    /\ data["A"] = Null

\* C16: when the destructor of a Vector that held k elements has returned, the
\* count of live instances of the element type is k less than it was when the
\* destructor was called, with either allocator and any capacity >= k.
C16_DestroyCount ==
    (pc[1] = "idle" /\ calls[1] = 1) =>
        instances = mark["A"].instances - mark["A"].size

\* C17: with either allocator the live instances are exactly the elements the
\* Vectors constructed and have not destructed, and a step that allocates or
\* releases a buffer constructs and destructs no element: the count of
\* instances goes the same way with NewAllocator as with MallocAllocator.
AllocatorStep == \E b \in Bufs : heap'[b].live # heap[b].live

C17_AllocatorsAgree ==
    /\ [](instances = Cardinality(Constructed))
    /\ [][AllocatorStep => instances' = instances]_vars

\* C18: after any sequence of constructions, destructions, copies, moves,
\* assignments, push_back, pop_back and reserve calls, the non-null data_ of
\* each constructed Vector designates an allocated buffer that the data_ of no
\* other Vector designates.
C18_BufferExclusive ==
    \A v \in Vecs :
        (life[v] = "live" /\ ~Busy(v) /\ data[v] # Null)
            => /\ heap[data[v]].live
               /\ \A w \in Vecs \ {v} : data[w] # data[v]
               /\ \A t \in Threads : pc[t] = "idle" => loc[t].newdata # data[v]

\* C18 witness: two constructed Vectors at rest hold the same two elements,
\* as after a copy, each in a buffer of its own.
C18_Witness ==
    /\ \A t \in Threads : pc[t] = "idle"
    /\ life["A"] = "live" /\ life["B"] = "live"
    /\ size["A"] = 2 /\ Elems("A") = Elems("B")
    /\ data["A"] # Null /\ data["B"] # Null /\ data["A"] # data["B"]

\* C19: no release is of a buffer that is not allocated, and when every Vector
\* has been destroyed no buffer is allocated, also in the runs in which an
\* allocation was refused.
AllDestroyed ==
    /\ \A t \in Threads : pc[t] = "idle"
    /\ calls[1] = 1
    /\ \A v \in Vecs : life[v] = "none"

C19_ReleasedExactlyOnce ==
    /\ fault # "double_free"
    /\ AllDestroyed => \A b \in Bufs : ~heap[b].live

\* t is at a statement of a copy construction or copy assignment that reads
\* or writes the state of one of its two Vectors.
InCopyBody(t) ==
    /\ loc[t].op \in {"copy_ctor", "copy_assign"}
    /\ pc[t] \in {"as_destroy", "as_free", "cp_size", "cp_cap", "cp_alloc", "cp_copy",
                  "ul_other"}

\* C20: a thread that copies A into B under MultiThreaded holds the guards of
\* both while it is at any statement that reads or writes either; no other
\* thread is inside a push_back or pop_back on A meanwhile; and when the copy
\* is complete, before the guards are released, B's size, capacity and
\* elements are those A has at that instant.
C20_CopySnapshot ==
    \A t \in Threads :
        InCopyBody(t) =>
            /\ owner[loc[t].self] = t /\ owner[loc[t].other] = t
            /\ \A u \in Threads \ {t} : ~(InGuarded(u) /\ loc[u].self = loc[t].other)
            /\ pc[t] = "ul_other" =>
                  /\ size[loc[t].self] = size[loc[t].other]
                  /\ capacity[loc[t].self] = capacity[loc[t].other]
                  /\ Elems(loc[t].self) = Elems(loc[t].other)
                  /\ \A k \in 1..size[loc[t].self] : LiveSlot(data[loc[t].self], k - 1)

\* C20 witness: the copy is complete and holds both guards; the other thread
\* pushed an element onto A before the copy read A, which the copy has, and
\* now waits for A's guard with its next call.
C20_Witness ==
    /\ pc[1] = "ul_other" /\ loc[1].op \in {"copy_ctor", "copy_assign"}
    /\ size["B"] = 2 /\ size["A"] = 2
    /\ calls[2] = 2
    /\ pc[2] \in {"pb_lock", "po_lock"}

\* t is between the lock() and the unlock() of the guard of v: the statements
\* after mutex_.lock() up to mutex_.unlock() of the operation it runs.
InRegion(t, v) ==
    \/ /\ loc[t].self = v
       /\ \/ InGuarded(t)
          \/ pc[t] \in {"ix_ref", "ix_unlock", "pr_read", "pr_unlock"}
          \/ pc[t] \in {"lk_other", "as_destroy", "as_free", "cp_size", "cp_cap",
                        "cp_alloc", "cp_copy", "mv_take", "mv_reset", "ul_other",
                        "ul_this"}
    \/ /\ loc[t].other = v
       /\ pc[t] \in {"as_destroy", "as_free", "cp_size", "cp_cap", "cp_alloc", "cp_copy",
                     "mv_take", "mv_reset", "ul_other"}

\* C21: under MultiThreaded no two threads are between lock() and unlock() of
\* the guard of the same Vector, whatever push_back, pop_back, operator[],
\* print, copy or move operations they run.
C21_MutualExclusion ==
    \A v \in Vecs : \A t \in Threads, u \in Threads :
        (t # u /\ InRegion(t, v)) => ~InRegion(u, v)

\* C21 witness: one thread is printing A, inside the guard, while the other
\* has called an assignment to A and waits for the guard.
C21_Witness ==
    /\ pc[1] = "pr_read" /\ loc[1].self = "A"
    /\ pc[2] = "lk_this" /\ loc[2].self = "A"
    /\ owner["A"] = 1

\* C22: with DebugMode and MultiThreaded, the lines emitted for the push_back
\* calls are in the order in which the values were appended to the Vector:
\* once every call has returned, the sequence of lines is the sequence of the
\* elements.
C22_LogOrder ==
    (\A t \in Threads : pc[t] = "idle") => pushed["A"] = Elems("A")

\* C23: pop_back() on an empty Vector returns without a failure and leaves the
\* buffer, its slots, size and capacity as they were; on a Vector of size > 0
\* it lowers size by exactly 1 and destructs exactly the element at the old
\* index size - 1; in both cases no step of it changes capacity, the buffer or
\* any other slot.
InPopBack(t) == loc[t].op = "pop_back" /\ pc[t] # "idle"

C23_PopBackEffect ==
    [][\A t \in Threads :
          InPopBack(t) =>
              LET v == loc[t].self
                  n == pre[t].size
              IN  /\ data'[v] = data[v]
                  /\ capacity'[v] = capacity[v]
                  /\ fault' = "none"
                  /\ \A b \in Bufs :
                        /\ heap'[b].live = heap[b].live
                        /\ \A k \in 1..Len(heap[b].slots) :
                              (b # data[v] \/ k # n) => heap'[b].slots[k] = heap[b].slots[k]
                  /\ instances' = IF pc[t] = "po_destroy" THEN instances - 1 ELSE instances
                  /\ pc'[t] = "idle" =>
                        IF n = 0
                        THEN /\ size'[v] = 0
                             /\ pc[t] = "po_unlock"
                        ELSE /\ size'[v] = n - 1
                             /\ heap'[data[v]].slots[n] = Raw
                             /\ Elems(v)' = SubSeq(pre[t].elems, 1, n - 1)]_vars

\* C23 witness: pop_back on a Vector of two elements has destructed the element
\* at index 1, kept the one at index 0 and is about to return.
C23_Witness ==
    /\ pc[1] = "po_unlock"
    /\ loc[1].op = "pop_back"
    /\ pre[1].size = 2
    /\ size["A"] = 1
    /\ heap[data["A"]].slots[2] = Raw
    /\ heap[data["A"]].slots[1] = pre[1].elems[1]

\* C24: with MultiThreaded, a push_back called by a single thread on a full
\* Vector (size = capacity) completes: the thread acquires the guard, grows the
\* buffer through reserve, which acquires nothing, and returns normally.
C24_GrowthCompletes ==
    \A t \in Threads :
        (/\ threadPolicy = "multi"
         /\ pc[t] = "pb_lock"
         /\ size[loc[t].self] = capacity[loc[t].self])
            ~> (pc[t] = "idle" /\ res[t] = "ok" /\ owner["A"] = NoThread)

\* C24 witness: the thread holds the guard of a Vector that was full with two
\* elements when push_back was called; reserve has grown the buffer, the
\* element is appended and the push_back is about to unlock and return.
C24_Witness ==
    /\ threadPolicy = "multi"
    /\ pc[1] = "pb_unlock"
    /\ owner["A"] = 1
    /\ pre[1].size = 2
    /\ pre[1].capacity = 2
    /\ size["A"] = 3
    /\ capacity["A"] = 4

\* C25: after A = A or A = std::move(A), A has the buffer, size, capacity and
\* elements it had at the call, every element is still constructed in a live
\* buffer, and the assignment has returned without acquiring any guard.
C25_SelfAssignNoOp ==
    calls[1] = 1 =>
        /\ pc[1] = "idle"
        /\ res[1] = "ok"
        /\ Snapshot("A") = mark["A"]
        /\ \A k \in 1..size["A"] : LiveSlot(data["A"], k - 1)
        /\ \A v \in Vecs : owner[v] = NoThread
        /\ fault = "none"

\* C25 witness: a move assignment of A to itself has returned on a Vector of
\* two differing elements, under MultiThreaded.
C25_Witness ==
    /\ calls[1] = 1
    /\ loc[1].op = "move_assign"
    /\ loc[1].self = "A" /\ loc[1].other = "A"
    /\ threadPolicy = "multi"
    /\ size["A"] = 2
    /\ Elems("A")[1] # Elems("A")[2]

\* C26: when A.push_back(A[i]) has returned, the last element of A is the
\* value that A[i] had when push_back was called, also when A was full and
\* the call grew the buffer.
C26_AppendsArgument ==
    (calls[1] = 2 /\ pc[1] = "idle") =>
        Elems("A")[size["A"]] = pushed["A"][Len(pushed["A"])]

\* The same restricted to calls in which the reference still referred to a
\* constructed element when it was read (the Vector was not full).
C26_NotFull ==
    (calls[1] = 2 /\ pc[1] = "idle" /\ fault = "none") =>
        Elems("A")[size["A"]] = pushed["A"][Len(pushed["A"])]

\* C27: for every class D deriving from Countable<D>, D::getCount() is the
\* number of D objects alive, and is never negative, after any default
\* constructions, copy constructions and destructions.
C27_CountIsLive ==
    \A d \in Classes : getCount(d) = alive[d] /\ getCount(d) >= 0

\* The constructions and destructions of one class leave the count of the
\* other classes as it is.
C27_Independent ==
    [][\A d \in Classes :
          alive'[d] # alive[d] => \A e \in Classes \ {d} : count'[e] = count[e]]_vars

====
